---- MODULE Spec2Model ----
(***************************************************************************)
(* The App component of src/src/App.js as a state machine.                 *)
(*                                                                         *)
(* The five useState cells (web3auth, provider, contract, message,         *)
(* newMessage) are the stored state.  Every handler is an async function:  *)
(* its synchronous prefix (guard, captured closure values, first external  *)
(* call) is one action named after the handler, and every await is a       *)
(* point where the handler is suspended and any other handler may run; the *)
(* continuation after an await is a further action.  The external SDK      *)
(* calls (auth client, chain RPC) may resolve or reject.                   *)
(*                                                                         *)
(* The handlers are modelled as callable operations: the guards they carry *)
(* are what the model checks, so an invocation is not restricted to the    *)
(* controls currently rendered.                                            *)
(***************************************************************************)
EXTENDS Naturals, Sequences, FiniteSets, Bags, TLC

\* ------------------------------------------------------------------ bounds
\* Total number of handler invocations in one run.
MaxCalls == 5
\* Number of handler invocations suspended at an await at the same time.
MaxInFlight == 2

\* ------------------------------------------------------------ program data
\* useState(null): the absent handle.
NULL == 0
\* The Web3AuthNoModal instance built by init.
W3A == 1
\* Constructor argument of factory.deploy.
HelloWorld == "Hello World!"
\* Texts the user may type into the input (onChange), besides clearing it.
Inputs == {"X"}

VARIABLES
    web3auth,       \* useState: the auth client handle (Session) or NULL
    provider,       \* useState: the ethers.BrowserProvider (id) or NULL
    contract,       \* useState: the deployed contract (id) or NULL
    message,        \* useState: DisplayedMessage
    newMessage,     \* useState: PendingInput
    initPc,         \* position of the init effect
    tasks,          \* suspended handler invocations: a bag of closures
    calls,          \* number of handler invocations so far
    providers,      \* number of BrowserProvider instances created so far
    chain,          \* the contract instances on chain, by id
    console,        \* the line the last step wrote to the console, if any
    loggedOut,      \* history: a logout succeeded and no login succeeded since
    confirmedWrite, \* history: the writeContract that completed last
    shown,          \* history: where DisplayedMessage was read from
    latest,         \* history: what the read invoked last, of those that
                    \* succeeded, resolved to
    reLoggedIn      \* history: the login that stored the provider succeeded
                    \* after a logout had succeeded

stored == <<web3auth, provider, contract, message, newMessage>>
history == <<loggedOut, confirmedWrite, shown, latest, reLoggedIn>>
vars == <<web3auth, provider, contract, message, newMessage, initPc, tasks,
          calls, providers, chain, console, loggedOut, confirmedWrite,
          shown, latest, reLoggedIn>>

\* A step that calls neither console.log nor console.error.
Silent == ""

\* A completed write: the instance, the string, and the instance's version
\* (the number of updates mined on it) the write produced.
NoWrite == [c |-> NULL, v |-> "", version |-> 0]
NoRead == [c |-> NULL, v |-> "", after |-> NoWrite, version |-> 0]

\* A suspended invocation: the handler, the await it is suspended at, and the
\* values its closure holds (p: provider, c: contract, v: a string).  after
\* and version are history: the write that had completed last when a read was
\* invoked, the version of the instance a read or write has seen, the place
\* of a read in the order the suspended reads were invoked in, and whether a
\* read invoked after it has already succeeded.
Task(op, pc, p, c, v) ==
    [op |-> op, pc |-> pc, p |-> p, c |-> c, v |-> v,
     after |-> NoWrite, version |-> 0, seq |-> 0, overtaken |-> FALSE]

InFlight == BagToSet(tasks)
Suspended(t, op, pcs) == t \in InFlight /\ t.op = op /\ t.pc \in pcs

CanInvoke == calls < MaxCalls /\ BagCardinality(tasks) < MaxInFlight

Spawn(rec) == tasks' = tasks (+) SetToBag({rec})
Finish(t) == tasks' = tasks (-) SetToBag({t})
Become(t, rec) == tasks' = (tasks (-) SetToBag({t})) (+) SetToBag({rec})
Goto(t, pc) == Become(t, [t EXCEPT !.pc = pc])

Init ==
    /\ web3auth = NULL
    /\ provider = NULL
    /\ contract = NULL
    /\ message = ""
    /\ newMessage = ""
    /\ initPc = "start"
    /\ tasks = EmptyBag
    /\ calls = 0
    /\ providers = 0
    /\ chain = <<>>
    /\ console = Silent
    /\ loggedOut = FALSE
    /\ confirmedWrite = NoWrite
    /\ shown = NoRead
    /\ latest = ""
    /\ reLoggedIn = FALSE

\* ------------------------------------------------------------ init effect
\* A constructor (Web3AuthNoModal, EthereumPrivateKeyProvider,
\* OpenloginAdapter) or configureAdapter throws: caught and logged.
initConstructFailed ==
    /\ initPc = "start"
    /\ initPc' = "failed"
    /\ console' = "error"
    /\ UNCHANGED <<stored, tasks, calls, providers, chain, history>>

\* The value setWeb3auth stores before web3auth.init() is awaited.
SessionStored == W3A

\* Construction succeeds: setWeb3auth(web3auth), then web3auth.init() starts.
initConfigured ==
    /\ initPc = "start"
    /\ initPc' = "initializing"
    /\ web3auth' = SessionStored
    /\ console' = Silent
    /\ UNCHANGED <<provider, contract, message, newMessage, tasks, calls,
                   providers, chain, history>>

\* await web3auth.init() resolves.
initResolved ==
    /\ initPc = "initializing"
    /\ initPc' = "ready"
    /\ console' = Silent
    /\ UNCHANGED <<stored, tasks, calls, providers, chain, history>>

\* await web3auth.init() rejects: caught and logged.
initFailed ==
    /\ initPc = "initializing"
    /\ initPc' = "failed"
    /\ console' = "error"
    /\ UNCHANGED <<stored, tasks, calls, providers, chain, history>>

\* ------------------------------------------------------------------ login
\* Faulty variant: login without its guard.
LoginGuardMissing(w) == TRUE

LoginGuard(w) == w # NULL

login ==
    /\ CanInvoke
    /\ calls' = calls + 1
    /\ IF LoginGuard(web3auth)
         THEN /\ Spawn(Task("login", "connectTo", NULL, NULL, ""))
              /\ console' = Silent
         ELSE /\ console' = "web3auth not initialized yet"
              /\ UNCHANGED tasks
    /\ UNCHANGED <<stored, initPc, providers, chain, history>>

\* await web3auth.connectTo resolves: setProvider(new ethers.BrowserProvider).
loginResolved(t) ==
    /\ Suspended(t, "login", {"connectTo"})
    /\ providers' = providers + 1
    /\ provider' = providers'
    /\ loggedOut' = FALSE
    /\ reLoggedIn' = loggedOut
    /\ Finish(t)
    /\ console' = Silent
    /\ UNCHANGED <<web3auth, contract, message, newMessage, initPc, calls,
                   chain, confirmedWrite, shown, latest>>

\* await web3auth.connectTo rejects: the handler ends, nothing is caught.
loginFailed(t) ==
    /\ Suspended(t, "login", {"connectTo"})
    /\ Finish(t)
    /\ console' = Silent
    /\ UNCHANGED <<stored, initPc, calls, providers, chain, history>>

\* ------------------------------------------------------------ getUserInfo
getUserInfo ==
    /\ CanInvoke
    /\ calls' = calls + 1
    /\ IF web3auth # NULL
         THEN /\ Spawn(Task("getUserInfo", "getUserInfo", NULL, NULL, ""))
              /\ console' = Silent
         ELSE /\ console' = "web3auth not initialized yet"
              /\ UNCHANGED tasks
    /\ UNCHANGED <<stored, initPc, providers, chain, history>>

\* Faulty variant: getUserInfo that displays the profile it received.
getUserInfoResolvedDisplaysUser(t) ==
    /\ Suspended(t, "getUserInfo", {"getUserInfo"})
    /\ console' = "user"
    /\ message' = "user"
    /\ Finish(t)
    /\ UNCHANGED <<web3auth, provider, contract, newMessage, initPc, calls,
                   providers, chain, history>>

\* await web3auth.getUserInfo() resolves: console.log(user).
getUserInfoResolved(t) ==
    /\ Suspended(t, "getUserInfo", {"getUserInfo"})
    /\ console' = "user"
    /\ Finish(t)
    /\ UNCHANGED <<stored, initPc, calls, providers, chain, history>>

\* await web3auth.getUserInfo() rejects: the handler ends, nothing is caught.
getUserInfoFailed(t) ==
    /\ Suspended(t, "getUserInfo", {"getUserInfo"})
    /\ Finish(t)
    /\ console' = Silent
    /\ UNCHANGED <<stored, initPc, calls, providers, chain, history>>

\* ----------------------------------------------------------------- logout
LogoutGuard(w) == w # NULL

logout ==
    /\ CanInvoke
    /\ calls' = calls + 1
    /\ IF LogoutGuard(web3auth)
         THEN /\ Spawn(Task("logout", "logout", NULL, NULL, ""))
              /\ console' = Silent
         ELSE /\ console' = "web3auth not initialized yet"
              /\ UNCHANGED tasks
    /\ UNCHANGED <<stored, initPc, providers, chain, history>>

\* Faulty variant: logout that leaves the provider stored.
LoggedOutProviderKept(p) == p

\* The value setProvider receives once web3auth.logout() has resolved.
LoggedOutProvider(p) == NULL

\* Faulty variant: logout that also drops the auth client.
logoutResolvedDropsSession(t) ==
    /\ Suspended(t, "logout", {"logout"})
    /\ provider' = NULL
    /\ web3auth' = NULL
    /\ loggedOut' = TRUE
    /\ reLoggedIn' = FALSE
    /\ Finish(t)
    /\ console' = Silent
    /\ UNCHANGED <<contract, message, newMessage, initPc, calls, providers,
                   chain, confirmedWrite, shown, latest>>

\* Faulty variant: logout that also forgets the deployed contract.
logoutResolvedClearsContract(t) ==
    /\ Suspended(t, "logout", {"logout"})
    /\ provider' = NULL
    /\ contract' = NULL
    /\ loggedOut' = TRUE
    /\ reLoggedIn' = FALSE
    /\ Finish(t)
    /\ console' = Silent
    /\ UNCHANGED <<web3auth, message, newMessage, initPc, calls, providers,
                   chain, confirmedWrite, shown, latest>>

\* await web3auth.logout() resolves: setProvider(null).
logoutResolved(t) ==
    /\ Suspended(t, "logout", {"logout"})
    /\ provider' = LoggedOutProvider(provider)
    /\ loggedOut' = TRUE
    /\ reLoggedIn' = FALSE
    /\ Finish(t)
    /\ console' = Silent
    /\ UNCHANGED <<web3auth, contract, message, newMessage, initPc, calls,
                   providers, chain, confirmedWrite, shown, latest>>

\* await web3auth.logout() rejects: the handler ends, nothing is caught.
logoutFailed(t) ==
    /\ Suspended(t, "logout", {"logout"})
    /\ Finish(t)
    /\ console' = Silent
    /\ UNCHANGED <<stored, initPc, calls, providers, chain, history>>

\* --------------------------------------------------------- deployContract
\* The awaits of the try block are provider.getSigner(), factory.deploy(...),
\* contract.waitForDeployment() and contract.getAddress().  The first two
\* touch no state another handler reads and are one suspension ("deploy");
\* getAddress() answers from the contract object and is taken together with
\* the line that logs it.
\* Faulty variant: deployContract without its guard.
DeployGuardMissing(p) == TRUE

DeployGuard(p) == p # NULL

\* Faulty variant: deployContract that refuses to run while a deployment
\* is suspended.
deployContractExclusive ==
    /\ CanInvoke
    /\ \A t \in InFlight : t.op # "deployContract"
    /\ calls' = calls + 1
    /\ IF DeployGuard(provider)
         THEN /\ Spawn(Task("deployContract", "deploy", provider, NULL, ""))
              /\ console' = Silent
         ELSE /\ console' = "provider not initialized yet"
              /\ UNCHANGED tasks
    /\ UNCHANGED <<stored, initPc, providers, chain, history>>

deployContract ==
    /\ CanInvoke
    /\ calls' = calls + 1
    /\ IF DeployGuard(provider)
         THEN /\ Spawn(Task("deployContract", "deploy", provider, NULL, ""))
              /\ console' = Silent
         ELSE /\ console' = "provider not initialized yet"
              /\ UNCHANGED tasks
    /\ UNCHANGED <<stored, initPc, providers, chain, history>>

\* await provider.getSigner() and await factory.deploy("Hello World!")
\* resolve: the deployment transaction is sent.
deploySubmitted(t) ==
    /\ Suspended(t, "deployContract", {"deploy"})
    /\ Goto(t, "waitForDeployment")
    /\ console' = Silent
    /\ UNCHANGED <<stored, initPc, calls, providers, chain, history>>

\* Faulty variant: a deployment that drops the constructor argument.
DeployedEmpty(initMessage, p) ==
    [message |-> "", version |-> 0, runner |-> p, orphan |-> FALSE]

\* The instance the constructor creates on chain: its message, the number of
\* updates mined on it, the provider whose signer the contract object runs
\* on, and whether the handler that sent the transaction failed afterwards.
Deployed(initMessage, p) ==
    [message |-> initMessage, version |-> 0, runner |-> p, orphan |-> FALSE]

\* Faulty variant: a deployment that keeps the first contract object.
DeployedContractFirst(c) == 1

\* The value setContract receives: the contract object of the new instance.
DeployedContract(c) == c

\* The transaction is mined and await contract.waitForDeployment() resolves:
\* setContract(contract), then the address is logged.
deployConfirmed(t) ==
    /\ Suspended(t, "deployContract", {"waitForDeployment"})
    /\ chain' = Append(chain, Deployed(HelloWorld, t.p))
    /\ contract' = DeployedContract(Len(chain'))
    /\ console' = "Contract deployed to:"
    /\ Finish(t)
    /\ UNCHANGED <<web3auth, provider, message, newMessage, initPc, calls,
                   providers, history>>

\* Faulty variant: a failed deployment that resets the stored contract.
deployFailedRollsBack(t, orphan) ==
    /\ Suspended(t, "deployContract", {"deploy", "waitForDeployment"})
    /\ orphan => t.pc = "waitForDeployment"
    /\ chain' = IF orphan
                  THEN Append(chain, [Deployed(HelloWorld, t.p)
                                        EXCEPT !.orphan = TRUE])
                  ELSE chain
    /\ contract' = NULL
    /\ console' = "Error deploying contract:"
    /\ Finish(t)
    /\ UNCHANGED <<web3auth, provider, message, newMessage, initPc, calls,
                   providers, history>>

\* An await of the try block rejects: caught, logged, the handler ends.  A
\* transaction that was sent may still be mined (orphan = TRUE): the instance
\* then exists on chain and no contract object refers to it.
deployFailed(t, orphan) ==
    /\ Suspended(t, "deployContract", {"deploy", "waitForDeployment"})
    /\ orphan => t.pc = "waitForDeployment"
    /\ chain' = IF orphan
                  THEN Append(chain, [Deployed(HelloWorld, t.p)
                                        EXCEPT !.orphan = TRUE])
                  ELSE chain
    /\ console' \in {"Error deploying contract:",
                     "Please make sure you have enough test ETH in your wallet."}
    /\ Finish(t)
    /\ UNCHANGED <<stored, initPc, calls, providers, history>>

\* ----------------------------------------------------------- readContract
\* The place of a new read after the reads that are suspended.
NextRead ==
    LET seqs == {t.seq : t \in InFlight}
    IN 1 + CHOOSE n \in seqs \cup {0} : \A m \in seqs : m <= n

\* Faulty variant: readContract without its guard.
ReadGuardMissing(c) == TRUE

ReadGuard(c) == c # NULL

readContract ==
    /\ CanInvoke
    /\ calls' = calls + 1
    /\ IF ReadGuard(contract)
         THEN /\ Spawn([Task("readContract", "message", NULL, contract, "")
                          EXCEPT !.after = confirmedWrite,
                                 !.seq = NextRead])
              /\ console' = Silent
         ELSE /\ console' = "Contract not deployed yet"
              /\ UNCHANGED tasks
    /\ UNCHANGED <<stored, initPc, providers, chain, history>>

\* Faulty variant: a read that never sees an update.
MessageAtDeployment(c) == "Hello World!"

\* What the node answers to the call of message() on instance c.
Message(c) == chain[c].message

\* The node serves the call of contract.message().
readServed(t) ==
    /\ Suspended(t, "readContract", {"message"})
    /\ t.c \in DOMAIN chain
    /\ Become(t, [t EXCEPT !.pc = "served",
                            !.v = Message(t.c),
                            !.version = chain[t.c].version])
    /\ console' = Silent
    /\ UNCHANGED <<stored, initPc, calls, providers, chain, history>>

\* History of a read that succeeds: it leaves the suspended invocations, the
\* reads invoked before it are overtaken, and it is the read invoked last of
\* those that succeeded unless it was overtaken itself.
ReadSucceeded(t) ==
    /\ latest' = IF t.overtaken THEN latest ELSE t.v
    /\ tasks' = BagOfAll(
         LAMBDA u : IF u.op = "readContract" /\ u.seq < t.seq
                      THEN [u EXCEPT !.overtaken = TRUE] ELSE u,
         tasks (-) SetToBag({t}))

\* Faulty variant: a read that displays its string only when no read invoked
\* after it has completed.
readResolvedInOrder(t) ==
    /\ Suspended(t, "readContract", {"served"})
    /\ message' = IF t.overtaken THEN message ELSE t.v
    /\ shown' = [c |-> t.c, v |-> t.v, after |-> t.after,
                 version |-> t.version]
    /\ ReadSucceeded(t)
    /\ console' = Silent
    /\ UNCHANGED <<web3auth, provider, contract, newMessage, initPc, calls,
                   providers, chain, loggedOut, confirmedWrite, reLoggedIn>>

\* Faulty variant: a read that also clears the pending input.
readResolvedClearsInput(t) ==
    /\ Suspended(t, "readContract", {"served"})
    /\ message' = t.v
    /\ newMessage' = ""
    /\ shown' = [c |-> t.c, v |-> t.v, after |-> t.after,
                 version |-> t.version]
    /\ ReadSucceeded(t)
    /\ console' = Silent
    /\ UNCHANGED <<web3auth, provider, contract, initPc, calls, providers,
                   chain, loggedOut, confirmedWrite, reLoggedIn>>

\* await contract.message() resolves: setMessage(message).
readResolved(t) ==
    /\ Suspended(t, "readContract", {"served"})
    /\ message' = t.v
    /\ shown' = [c |-> t.c, v |-> t.v, after |-> t.after,
                 version |-> t.version]
    /\ ReadSucceeded(t)
    /\ console' = Silent
    /\ UNCHANGED <<web3auth, provider, contract, newMessage, initPc, calls,
                   providers, chain, loggedOut, confirmedWrite, reLoggedIn>>

\* await contract.message() rejects: the handler ends, nothing is caught.
readFailed(t) ==
    /\ Suspended(t, "readContract", {"message", "served"})
    /\ Finish(t)
    /\ console' = Silent
    /\ UNCHANGED <<stored, initPc, calls, providers, chain, history>>

\* ---------------------------------------------------------- writeContract
\* Faulty variant: writeContract without its guard.
WriteGuardMissing(c) == TRUE

WriteGuard(c) == c # NULL

\* Faulty variant: an update that does not pass the pending input.
UpdateArgumentEmpty(pending) == ""

\* The argument contract.update is called with.
UpdateArgument(pending) == pending

writeContract ==
    /\ CanInvoke
    /\ calls' = calls + 1
    /\ IF WriteGuard(contract)
         THEN /\ Spawn(Task("writeContract", "wait", NULL, contract,
                            UpdateArgument(newMessage)))
              /\ console' = Silent
         ELSE /\ console' = "Contract not deployed yet"
              /\ UNCHANGED tasks
    /\ UNCHANGED <<stored, initPc, providers, chain, history>>

\* await contract.update(newMessage) has sent the transaction and it is
\* mined: the instance stores the new string.
writeMined(t) ==
    /\ Suspended(t, "writeContract", {"wait"})
    /\ t.c \in DOMAIN chain
    /\ chain' = [chain EXCEPT ![t.c].message = t.v,
                              ![t.c].version = @ + 1]
    /\ Become(t, [t EXCEPT !.pc = "mined",
                            !.version = chain[t.c].version + 1])
    /\ console' = Silent
    /\ UNCHANGED <<stored, initPc, calls, providers, history>>

\* await tx.wait() resolves: "Message updated" is logged, setNewMessage("").
writeConfirmed(t) ==
    /\ Suspended(t, "writeContract", {"mined"})
    /\ console' = "Message updated"
    /\ newMessage' = ""
    /\ confirmedWrite' = [c |-> t.c, v |-> t.v, version |-> t.version]
    /\ Finish(t)
    /\ UNCHANGED <<web3auth, provider, contract, message, initPc, calls,
                   providers, chain, loggedOut, shown, latest, reLoggedIn>>

\* Faulty variant: a failed write that clears the pending input all the same.
writeFailedClearsInput(t) ==
    /\ Suspended(t, "writeContract", {"wait", "mined"})
    /\ newMessage' = ""
    /\ Finish(t)
    /\ console' = Silent
    /\ UNCHANGED <<web3auth, provider, contract, message, initPc, calls,
                   providers, chain, history>>

\* await contract.update(newMessage) or await tx.wait() rejects: the handler
\* ends, nothing is caught.
writeFailed(t) ==
    /\ Suspended(t, "writeContract", {"wait", "mined"})
    /\ Finish(t)
    /\ console' = Silent
    /\ UNCHANGED <<stored, initPc, calls, providers, chain, history>>

\* ----------------------------------------------------------- checkBalance
checkBalance ==
    /\ CanInvoke
    /\ calls' = calls + 1
    /\ IF provider # NULL
         THEN /\ Spawn(Task("checkBalance", "getAddress", provider, NULL, ""))
              /\ console' = Silent
         ELSE /\ console' = "Provider not initialized yet"
              /\ UNCHANGED tasks
    /\ UNCHANGED <<stored, initPc, providers, chain, history>>

\* The awaits of the try block, in order, and what is logged once each
\* resolves (provider.getSigner() and signer.getAddress() are one suspension).
BalanceNext(pc) ==
    CASE pc = "getAddress" -> [pc |-> "getNetwork", log |-> "Wallet address:"]
      [] pc = "getNetwork" -> [pc |-> "getBalance", log |-> "Connected to network:"]
      [] pc = "getBalance" -> [pc |-> "done", log |-> "Balance:"]

checkBalanceStep(t) ==
    /\ Suspended(t, "checkBalance",
                 {"getAddress", "getNetwork", "getBalance"})
    /\ LET n == BalanceNext(t.pc) IN
         /\ IF n.pc = "done" THEN Finish(t) ELSE Goto(t, n.pc)
         /\ console' = n.log
    /\ UNCHANGED <<stored, initPc, calls, providers, chain, history>>

\* Faulty variant: a failed balance check that drops the provider.
checkBalanceFailedDropsProvider(t) ==
    /\ Suspended(t, "checkBalance",
                 {"getAddress", "getNetwork", "getBalance"})
    /\ console' = "Error checking balance:"
    /\ provider' = NULL
    /\ Finish(t)
    /\ UNCHANGED <<web3auth, contract, message, newMessage, initPc, calls,
                   providers, chain, history>>

checkBalanceFailed(t) ==
    /\ Suspended(t, "checkBalance",
                 {"getAddress", "getNetwork", "getBalance"})
    /\ console' = "Error checking balance:"
    /\ Finish(t)
    /\ UNCHANGED <<stored, initPc, calls, providers, chain, history>>

\* ------------------------------------------------------------------ input
\* onChange of the text input: setNewMessage(e.target.value).
onChange(s) ==
    /\ s # newMessage
    /\ newMessage' = s
    /\ console' = Silent
    /\ UNCHANGED <<web3auth, provider, contract, message, initPc, tasks, calls,
                   providers, chain, history>>

\* ----------------------------------------------------------------- render
\* The controls the component renders: those of the logged-in branch when a
\* provider is stored, those of the contract when a contract is stored too.
DeployOffered == provider # NULL
WriteOffered == provider # NULL /\ contract # NULL

\* Faulty variant: a render that shows the contract's buttons outside the
\* logged-in branch.
RenderedContractUngated(p, c) ==
    (IF p = NULL
       THEN {"Login"}
       ELSE {"Get User Info", "Logout", "Deploy Contract", "Check Balance"})
    \cup (IF c # NULL THEN {"Read Contract", "Update Message"} ELSE {})

\* The buttons the component renders when provider is p and contract is c:
\* {!provider ? Login : <>...{contract && <>...</>}...</>}.
Rendered(p, c) ==
    IF p = NULL
      THEN {"Login"}
      ELSE {"Get User Info", "Logout", "Deploy Contract", "Check Balance"}
           \cup (IF c # NULL THEN {"Read Contract", "Update Message"} ELSE {})

\* ------------------------------------------------------------ specification
Next ==
    \/ initConstructFailed
    \/ initConfigured
    \/ initResolved
    \/ initFailed
    \/ login
    \/ getUserInfo
    \/ logout
    \/ deployContract
    \/ readContract
    \/ writeContract
    \/ checkBalance
    \/ \E s \in Inputs \cup {""} : onChange(s)
    \/ \E t \in InFlight : loginResolved(t)
    \/ \E t \in InFlight : loginFailed(t)
    \/ \E t \in InFlight : getUserInfoResolved(t)
    \/ \E t \in InFlight : getUserInfoFailed(t)
    \/ \E t \in InFlight : logoutResolved(t)
    \/ \E t \in InFlight : logoutFailed(t)
    \/ \E t \in InFlight : deploySubmitted(t)
    \/ \E t \in InFlight : deployConfirmed(t)
    \/ \E t \in InFlight, orphan \in BOOLEAN : deployFailed(t, orphan)
    \/ \E t \in InFlight : readServed(t)
    \/ \E t \in InFlight : readResolved(t)
    \/ \E t \in InFlight : readFailed(t)
    \/ \E t \in InFlight : writeMined(t)
    \/ \E t \in InFlight : writeConfirmed(t)
    \/ \E t \in InFlight : writeFailed(t)
    \/ \E t \in InFlight : checkBalanceStep(t)
    \/ \E t \in InFlight : checkBalanceFailed(t)

Spec == Init /\ [][Next]_vars

\* ================================================================= claims
NoOp == UNCHANGED <<stored, tasks, chain>>

\* C1: whenever a DeployedContract is stored, a ConnectedProvider is stored.
C1_ContractOnlyIfProvider == contract # NULL => provider # NULL

\* C2: whenever a ConnectedProvider is stored, a Session is stored.
C2_ProviderOnlyIfSession == provider # NULL => web3auth # NULL

C2_Witness == provider # NULL /\ web3auth # NULL /\ initPc = "ready"

\* C3: a logout whose teardown succeeds leaves the pre-login state:
\* ConnectedProvider absent, DeployedContract absent, Session still present.
C3_LogoutRestoresPreLogin ==
    [][\A t \in InFlight :
         logoutResolved(t) =>
           (provider' = NULL /\ contract' = NULL /\ web3auth' # NULL)]_vars

\* C4: when construction or web3auth.init() fails, the error is logged, the
\* Session stays absent from then on, and initialization is not run again.
C4_FailedInitLeavesNoSession ==
    /\ [](initPc = "failed" => web3auth = NULL)
    /\ [][(initPc # "failed" /\ initPc' = "failed") => console' = "error"]_vars
    /\ [][initPc = "failed" => initPc' = "failed"]_vars

\* C5: a login invoked before the session is initialized is a no-op: no login
\* flow is opened, the stored state is unchanged, only the diagnostic is logged.
C5_LoginBeforeInitNoOp ==
    [][(login /\ initPc # "ready") =>
         (NoOp /\ console' = "web3auth not initialized yet")]_vars

\* C6 (as claimed): a read invoked after a write of X completed (no other
\* write completing in between) displays X.
C6_ReadAfterWrite == shown.after.c # NULL => message = shown.after.v

\* C6 (amended): a read invoked after a write of X completed (no other write
\* completing in between) displays X when it reads the instance that write
\* updated and no other update was mined on that instance before the read
\* was served.
C6_ReadAfterWriteSameInstance ==
    (/\ shown.after.c # NULL
     /\ shown.c = shown.after.c
     /\ shown.version = shown.after.version) => message = shown.after.v

C6_Witness ==
    /\ shown.after.c # NULL
    /\ shown.c = shown.after.c
    /\ shown.version = shown.after.version
    /\ message = "X"

C8_DeployAfterLogoutNoOp ==
    /\ [](loggedOut => provider = NULL)
    /\ [][(deployContract /\ loggedOut) =>
            (NoOp /\ console' = "provider not initialized yet")]_vars

C8_Witness ==
    loggedOut /\ provider = NULL /\ console = "provider not initialized yet"

\* C9: a deployContract invoked while no ConnectedProvider is stored is a
\* no-op: nothing is submitted and the stored state is unchanged.
C9_DeployBeforeLoginNoOp ==
    [][(deployContract /\ provider = NULL) =>
         (NoOp /\ console' = "provider not initialized yet")]_vars

C9_Witness ==
    providers = 0 /\ provider = NULL /\ console = "provider not initialized yet"

\* C10: a readContract or writeContract invoked while no DeployedContract is
\* stored is a no-op: no call or transaction is issued and the stored state
\* is unchanged.
C10_ReadWriteBeforeDeployNoOp ==
    [][((readContract \/ writeContract) /\ contract = NULL) =>
         (NoOp /\ console' = "Contract not deployed yet")]_vars

C10_Witness ==
    contract = NULL /\ chain = <<>> /\ console = "Contract not deployed yet"

\* C11 (as claimed): DisplayedMessage is the string returned by the
\* successful read that was invoked last among those that have completed
\* ("" when none has), also when reads overlap.
C11_DisplayedIsLatestRead == message = latest

\* C11 (amended): DisplayedMessage is the string returned by the successful
\* read that completed last ("" when none has), also when reads overlap.
C11_DisplayedIsLastCompletedRead == message = shown.v

\* Two reads overlapped and the one invoked first completed last.
C11_Witness ==
    /\ shown.c # NULL
    /\ latest # shown.v
    /\ message = shown.v

\* C12: every provider handle the stored state still refers to (the stored
\* ConnectedProvider, and the provider the stored DeployedContract signs and
\* reads through) is one and the same instance.
C12_OneLiveProvider ==
    (provider # NULL /\ contract # NULL) => chain[contract].runner = provider

\* C13: once the Session handle is stored it stays stored with the same value.
C13_SessionNeverDestroyed == [][web3auth # NULL => web3auth' = web3auth]_vars

\* The Session is still stored after a login and a logout have succeeded.
C13_Witness == web3auth = W3A /\ loggedOut /\ providers > 0

\* The instances whose deployContract completed successfully.
Completed == {c \in DOMAIN chain : ~chain[c].orphan}

\* C14: a readContract or writeContract that passes its guard is preceded by
\* a deployContract that completed successfully, a deployContract that passes
\* its guard by a login that completed successfully, and a login that passes
\* its guard by the creation of the Session.
C14_StagesInOrder ==
    [][/\ ((readContract \/ writeContract) /\ tasks' # tasks)
            => Completed # {}
       /\ (deployContract /\ tasks' # tasks) => providers > 0
       /\ (login /\ tasks' # tasks) => initPc # "start"]_vars

\* A writeContract has passed its guard and is suspended.
C14_Witness ==
    /\ \E t \in InFlight : t.op = "writeContract"
    /\ Completed # {}
    /\ providers > 0

DeployErrors ==
    {"Error deploying contract:",
     "Please make sure you have enough test ETH in your wallet."}

\* C15: a deployContract that fails (at getSigner, at deploy or at
\* waitForDeployment) logs the error, is not run again, and leaves the stored
\* DeployedContract and all other stored state as they were.
C15_FailedDeployKeepsState ==
    [][\A t \in InFlight, orphan \in BOOLEAN :
         deployFailed(t, orphan) =>
           /\ UNCHANGED stored
           /\ console' \in DeployErrors
           /\ tasks' = tasks (-) SetToBag({t})]_vars

\* A deployment has just failed and the contract deployed before is stored.
C15_Witness == console \in DeployErrors /\ contract # NULL

\* The instance of the deployContract that completed last.
LastCompleted ==
    IF Completed = {} THEN NULL
    ELSE CHOOSE c \in Completed : \A d \in Completed : d <= c

\* C16: every successful deployContract creates a new instance, distinct from
\* all earlier ones and holding "Hello World!", and stores its reference in
\* place of the earlier one: N successful calls have created N instances and
\* the stored reference is the instance of the call that completed last.
C16_DeployNotIdempotent ==
    /\ [](contract = LastCompleted)
    /\ [][\A t \in InFlight :
            deployConfirmed(t) =>
              /\ Len(chain') = Len(chain) + 1
              /\ contract' = Len(chain')
              /\ chain'[contract'].message = "Hello World!"
              /\ chain'[contract'].version = 0
              /\ \A c \in DOMAIN chain : chain'[c] = chain[c]
              /\ Cardinality(Completed') = Cardinality(Completed) + 1]_vars

\* Two deployments have succeeded; the second instance is the stored one.
C16_Witness ==
    /\ Cardinality(Completed) = 2
    /\ contract = LastCompleted
    /\ contract = 2
    /\ console = "Contract deployed to:"

\* The number of suspended invocations of a handler.
Running(op) ==
    LET ts == {t \in InFlight : t.op = op}
        Sum[S \in SUBSET ts] ==
            IF S = {} THEN 0
            ELSE LET t == CHOOSE u \in S : TRUE
                 IN CopiesIn(t, tasks) + Sum[S \ {t}]
    IN Sum[ts]

\* C17: while a deployContract (a writeContract) is suspended, its control is
\* still rendered and a second invocation passes the guard and is suspended
\* beside the first: nothing blocks overlapping invocations.
C17_OverlapUnguarded ==
    /\ (Running("deployContract") > 0 /\ DeployOffered /\ CanInvoke)
         => ENABLED (deployContract /\ tasks' # tasks)
    /\ (Running("writeContract") > 0 /\ WriteOffered /\ CanInvoke)
         => ENABLED (writeContract /\ tasks' # tasks)

\* Two deployContract invocations are suspended at the same time.
C17_Witness == Running("deployContract") = 2 /\ DeployOffered

\* Two writeContract invocations are suspended at the same time.
C17_TwoWrites == Running("writeContract") = 2 /\ WriteOffered

\* C18: a successful writeContract submits the PendingInput of the moment it
\* was invoked, the instance it was invoked on stores that string, and on
\* confirmation PendingInput becomes ""; DeployedContract, ConnectedProvider,
\* Session and DisplayedMessage are not changed by it.
C18_WriteSubmitsPendingInput ==
    /\ [][(writeContract /\ tasks' # tasks) =>
            /\ tasks' = tasks (+) SetToBag(
                 {Task("writeContract", "wait", NULL, contract, newMessage)})
            /\ UNCHANGED <<stored, chain>>]_vars
    /\ [][\A t \in InFlight :
            writeMined(t) =>
              /\ chain'[t.c].message = t.v
              /\ \A c \in DOMAIN chain \ {t.c} : chain'[c] = chain[c]
              /\ UNCHANGED stored]_vars
    /\ [][\A t \in InFlight :
            writeConfirmed(t) =>
              /\ newMessage' = ""
              /\ UNCHANGED <<web3auth, provider, contract, message, chain>>]_vars

\* A write of "X" has just been confirmed.
C18_Witness ==
    /\ console = "Message updated"
    /\ newMessage = ""
    /\ confirmedWrite.v = "X"
    /\ chain[confirmedWrite.c].message = "X"

\* C19: readContract never changes the string of any instance on chain and,
\* of the stored state, changes only DisplayedMessage.
C19_ReadIsPure ==
    [][(\/ readContract
        \/ \E t \in InFlight : readServed(t) \/ readResolved(t) \/ readFailed(t))
         => UNCHANGED <<chain, web3auth, provider, contract, newMessage>>]_vars

\* A read has displayed an updated string while an input is pending.
C19_Witness ==
    /\ shown.c # NULL
    /\ message = "X"
    /\ newMessage = "X"
    /\ chain[shown.c].message = "X"

\* C20: checkBalance, whether its guard skips it, it succeeds or one of its
\* queries fails, changes neither the stored state nor any instance on chain.
C20_CheckBalanceObserves ==
    [][(\/ checkBalance
        \/ \E t \in InFlight : checkBalanceStep(t) \/ checkBalanceFailed(t))
         => UNCHANGED <<stored, chain>>]_vars

\* A balance check has just failed and the provider is still stored.
C20_Witness == console = "Error checking balance:" /\ provider # NULL

\* C21: getUserInfo, whether its guard skips it, it succeeds or the call
\* fails, leaves Session, ConnectedProvider, DeployedContract, DisplayedMessage
\* and PendingInput as they were; a skip only logs the diagnostic and a
\* success only logs the profile.
C21_GetUserInfoKeepsStored ==
    [][/\ (\/ getUserInfo
           \/ \E t \in InFlight : getUserInfoResolved(t) \/ getUserInfoFailed(t))
            => UNCHANGED <<web3auth, provider, contract, message, newMessage>>
       /\ (getUserInfo /\ web3auth = NULL)
            => (tasks' = tasks /\ console' = "web3auth not initialized yet")
       /\ (\A t \in InFlight : getUserInfoResolved(t) => console' = "user")]_vars

\* The profile has just been logged while a provider, a contract, a
\* displayed message and a pending input are stored.
C21_Witness ==
    /\ console = "user"
    /\ provider # NULL
    /\ contract # NULL
    /\ message = "Hello World!"
    /\ newMessage = "X"

\* C22: a logout that succeeds clears ConnectedProvider and leaves Session,
\* DeployedContract, DisplayedMessage and PendingInput as they were, and so
\* does the login that follows it: once that login has succeeded, a contract
\* deployed before the logout is still stored, its Read Contract and Update
\* Message controls are rendered, and readContract and writeContract pass
\* their guards and call it.
C22_LogoutChangesOnlyProvider ==
    /\ [][\A t \in InFlight :
            /\ logoutResolved(t) =>
                 /\ provider' = NULL
                 /\ UNCHANGED <<web3auth, contract, message, newMessage>>
            /\ loginResolved(t) =>
                 UNCHANGED <<web3auth, contract, message, newMessage>>]_vars
    /\ []((reLoggedIn /\ contract # NULL) =>
            /\ WriteOffered
            /\ CanInvoke =>
                 /\ ENABLED (readContract /\ \E t \in BagToSet(tasks') :
                               t.op = "readContract" /\ t.c = contract)
                 /\ ENABLED (writeContract /\ \E t \in BagToSet(tasks') :
                               t.op = "writeContract" /\ t.c = contract))

\* Login, a deployment, a logout and a second login have all completed: the
\* contract deployed through the first provider is stored next to the
\* second provider and a read and a write of it can be invoked.
C22_Witness ==
    /\ reLoggedIn
    /\ contract # NULL
    /\ chain[contract].runner # provider
    /\ tasks = EmptyBag
    /\ WriteOffered
    /\ ENABLED (readContract /\ tasks' # tasks)
    /\ ENABLED (writeContract /\ tasks' # tasks)

\* C23: when the call awaited by login, logout, readContract or writeContract
\* rejects, the invocation ends and Session, ConnectedProvider,
\* DeployedContract, DisplayedMessage and PendingInput are as they were: a
\* failed login and a failed logout leave ConnectedProvider as it was (a
\* provider that was stored stays stored), a failed read leaves
\* DisplayedMessage, and a failed write leaves PendingInput uncleared.
C23_FailureKeepsStored ==
    [][\A t \in InFlight :
         (loginFailed(t) \/ logoutFailed(t) \/ readFailed(t) \/ writeFailed(t))
           => /\ UNCHANGED <<web3auth, provider, contract, message, newMessage>>
              /\ tasks' = tasks (-) SetToBag({t})]_vars

\* A write of "X" to the stored contract was mined and then failed: no write
\* was ever confirmed, none is suspended, and the input is still pending.
C23_Witness ==
    /\ tasks = EmptyBag
    /\ confirmedWrite = NoWrite
    /\ contract # NULL
    /\ chain[contract].version > 0
    /\ chain[contract].message = "X"
    /\ newMessage = "X"

\* C24: in every reachable state the Login button is rendered exactly when
\* no ConnectedProvider is stored; Get User Info, Logout, Deploy Contract and
\* Check Balance exactly when one is stored; Read Contract and Update Message
\* exactly when a ConnectedProvider and a DeployedContract are both stored.
C24_ControlsGated ==
    LET buttons == Rendered(provider, contract) IN
      /\ "Login" \in buttons <=> provider = NULL
      /\ \A b \in {"Get User Info", "Logout", "Deploy Contract", "Check Balance"} :
           b \in buttons <=> provider # NULL
      /\ \A b \in {"Read Contract", "Update Message"} :
           b \in buttons <=> (provider # NULL /\ contract # NULL)

\* A contract is stored and no provider is: only Login is rendered.
C24_Witness ==
    /\ provider = NULL
    /\ contract # NULL
    /\ Rendered(provider, contract) = {"Login"}

====
